---- MODULE Spec2Model ----
(***************************************************************************)
(* State-machine model of bybit_mcp.auth: the BybitOAuthProvider (consent  *)
(* store with PIN lockout, single-use authorization codes, signed tokens   *)
(* with a revocation blacklist, refresh rotation).                         *)
(*                                                                         *)
(* Every public method of the provider is one action.  The methods are     *)
(* plain dictionary/set manipulations without an await inside, so each     *)
(* call is one atomic step; what interleaves are the calls of different    *)
(* requests (a token request is a load call followed by an exchange call)  *)
(* and the clock.  Random identifiers (secrets.token_urlsafe) are modelled *)
(* as fresh numbers drawn from a counter: never reused, never guessed      *)
(* before they exist.                                                      *)
(***************************************************************************)
EXTENDS Integers, Sequences, FiniteSets, TLC

\* ------------------------------------------------------------------ bounds
MaxConsents == 2      \* authorize calls in one behaviour
NumAttempts == 2      \* authorization-code token requests in one behaviour
NumRefresh  == 1      \* refresh token requests in flight at a time
NumCallers  == 2      \* threads inside RateLimiter.check at a time
MaxExcess   == 1      \* threads enter check until a key has max_requests + MaxExcess allowed calls
MaxTokens   == 3      \* tokens signed in one behaviour
MaxJti      == 5      \* the last token id a refresh exchange draws
NumRacing   == 2      \* refresh token requests in flight at a time in SpecRace
MaxIssued   == 1      \* tokens signed in one behaviour of SpecVerify
MaxTicks    == 1      \* the clock advances by d only while now < MaxTicks * d

\* ------------------------------------------------------- program constants
_ACCESS_TOKEN_TTL  == 3600
_REFRESH_TOKEN_TTL == 604800
_AUTH_CODE_TTL     == 600
_MAX_PIN_ATTEMPTS  == 5

\* --------------------------------------------------------------- the inputs
\* Python's None, and a value that is present where None is allowed
None       == [is_none |-> TRUE]
Some(v)    == [is_none |-> FALSE, value |-> v]
ClientIds  == {"client-a", "client-b"}
\* the PIN the operator configures ("" = none) and the PINs a caller submits
ConfiguredPins == {"", "secret-pin"}
Pins       == {"", "secret-pin", "wrong-pin"}
\* Python's `x or []` on an optional list: None and [] are falsy
OrEmpty(x) == IF x = None THEN <<>> ELSE x.value
\* AuthorizationParams a client sends to authorize; scopes is an optional list
ParamSets  ==
    { [state |-> "st-1", scopes |-> Some(<<"all">>), code_challenge |-> "ch-1",
       redirect_uri |-> "https://a.example/cb",
       redirect_uri_provided_explicitly |-> TRUE, resource |-> None],
      [state |-> "st-2", scopes |-> None, code_challenge |-> "ch-2",
       redirect_uri |-> "https://b.example/cb",
       redirect_uri_provided_explicitly |-> FALSE,
       resource |-> Some("https://rs.example")] }
\* what the authorization endpoint passes to authorize
AuthRequests ==
    { [client |-> "client-a", params |-> CHOOSE p \in ParamSets : p.state = "st-1"],
      [client |-> "client-b", params |-> CHOOSE p \in ParamSets : p.state = "st-2"] }
\* the code-grant token requests; each runs once: load, then exchange
Attempts   == 1..NumAttempts
\* the slots of the refresh requests; a request is a load, then an exchange
Refreshes  == 1..NumRefresh
\* scope lists a refresh request may ask for ([] = keep the token's)
RefreshScopes == {<<>>, <<"trade">>}
\* the limiters of the tests: RateLimiter(max_requests=3, window_seconds=60)
\* and RateLimiter(max_requests=1, window_seconds=60)
LimiterConfigs ==
    { [max_requests |-> 3, window_seconds |-> 60],
      [max_requests |-> 1, window_seconds |-> 60] }
\* the keys the tests check
LimiterKeys == {"key-a", "key-b"}
\* arguments of _create_jwt that differ in subject, type, scope list and ttl
IssueRequests ==
    { [sub |-> "client-a", token_type |-> "access", scopes |-> <<"all">>,
       ttl |-> _ACCESS_TOKEN_TTL],
      [sub |-> "client-b", token_type |-> "refresh", scopes |-> <<>>,
       ttl |-> _REFRESH_TOKEN_TTL],
      [sub |-> "client-b", token_type |-> "access", scopes |-> <<"read", "trade">>,
       ttl |-> 1] }
\* the client metadata sent to the registration endpoint: client-a registers
\* twice with different redirect URIs; software_id is optional
ClientInfos ==
    { [client_id |-> "client-a", redirect_uris |-> <<"https://a.example/cb">>,
       software_id |-> None],
      [client_id |-> "client-a", redirect_uris |-> <<"https://a.example/cb2">>,
       software_id |-> Some("reg-token")],
      [client_id |-> "client-b", redirect_uris |-> <<"https://b.example/cb">>,
       software_id |-> Some("other-software")] }
\* the registration token the environment sets ("" = none)
RegistrationTokens == {"", "reg-token"}
\* the arguments of a direct _create_jwt call
TokenRequests ==
    { [sub |-> "client-a", token_type |-> "refresh", scopes |-> <<"all">>,
       ttl |-> _REFRESH_TOKEN_TTL] }

VARIABLES
    consent_pin,       \* self.consent_pin
    api_key,           \* self.api_key
    clients,           \* self.clients: client_id -> client record
    REGISTRATION_TOKEN,\* config.REGISTRATION_TOKEN
    _timestamps,       \* RateLimiter._timestamps: key -> list of times
    max_requests,      \* RateLimiter.max_requests
    window_seconds,    \* RateLimiter.window_seconds
    allowed,           \* per key: the times of the checks that returned True
    chk,               \* per thread inside RateLimiter.check: its position and locals
    pending_consents,  \* self.pending_consents: consent_id -> (client, params)
    _pin_failures,     \* self._pin_failures: consent_id -> failure count
    auth_codes,        \* self.auth_codes: code -> AuthorizationCode
    revoked_jtis,      \* self.revoked_jtis
    next_consent,      \* the next consent_id secrets.token_urlsafe(32) yields
    next_code,         \* the next code secrets.token_urlsafe(32) yields
    next_jti,          \* the next jti secrets.token_urlsafe(16) yields
    now,               \* time.time()
    att,               \* code-grant requests: what load_authorization_code gave
    rreq,              \* refresh-grant requests: what load_refresh_token gave
    issued,            \* every token string _create_jwt has returned so far
    rotated,           \* the token strings exchange_refresh_token has returned on
    history,           \* per consent_id: redirects returned, codes minted, wrong
                       \* PINs, and the time of the authorize call that made it
    exchanged,         \* per code: token pairs exchange_authorization_code returned
    ret                \* the most recent call and what it returned or raised

config       == <<consent_pin, api_key, REGISTRATION_TOKEN>>
limiter_vars == <<_timestamps, max_requests, window_seconds, allowed, chk>>
reg_vars     == <<clients, limiter_vars>>
consent_vars == <<pending_consents, _pin_failures, next_consent, history>>
code_vars    == <<auth_codes, next_code, att, exchanged>>
token_vars   == <<revoked_jtis, next_jti, rreq, issued, rotated>>
vars == <<config, reg_vars, consent_vars, code_vars, token_vars, now, ret>>

\* The ids a caller can present: those handed out so far (a random id is not
\* guessed before it exists) and 0, an id that is never handed out.
ConsentIds == 0..(next_consent - 1)
CodeIds    == 0..(next_code - 1)

\* ------------------------------------------------------------ dict helpers
EmptyDict == [k \in {} |-> 0]
\* d.setdefault(k, v): a key that is present keeps its value
DictSet_setdefault(d, k, v) ==
    [x \in DOMAIN d \cup {k} |-> IF x \in DOMAIN d THEN d[x] ELSE v]

\* d[k] = v
DictSet(d, k, v) == [x \in DOMAIN d \cup {k} |-> IF x = k THEN v ELSE d[x]]
\* a pop that leaves the key in place
DictPop_keeps(d, k) == d

\* d.pop(k, None): the dict without k
DictPop(d, k) == [x \in DOMAIN d \ {k} |-> d[x]]
\* d.get(k, default)
DictGet(d, k, default) == IF k \in DOMAIN d THEN d[k] ELSE default

\* a redirect target that drops the state of the request
Redirect_no_state(uri, code, error, state) ==
    [uri |-> uri, code |-> code, error |-> error, state |-> ""]

\* construct_redirect_uri(redirect_uri, **params): the target and its query
Redirect(uri, code, error, state) ==
    [uri |-> uri, code |-> code, error |-> error, state |-> state]

\* what a call gave back: its return value, or the exception it raised
Returned(op, args, value) ==
    [op |-> op, args |-> args, raised |-> "", msg |-> "", value |-> value]
Raised(op, args, exc, msg) ==
    [op |-> op, args |-> args, raised |-> exc, msg |-> msg, value |-> None]

\* a request that has not loaded yet, and one that is answered
Idle == [pc |-> "idle", client |-> "", loaded |-> None]
Done == [pc |-> "done", client |-> "", loaded |-> None]

\* self.oauth_secret, and the fixed issuer/audience of _create_jwt
oauth_secret == "server-secret"
ServiceId    == "bybit-mcp"

NoHistory == [redirects |-> 0, codes |-> {}, wrong |-> 0, created |-> 0]

\* -------------------------------------------------------------------- Init
\* the limits of _registration_limiter: 5 registrations per 10 minutes
RegistrationMax    == 5
RegistrationWindow == 600

\* a thread that is not inside RateLimiter.check
Outside == [pc |-> "outside", key |-> "", now |-> 0, cutoff |-> 0, kept |-> <<>>]
\* the threads that may call RateLimiter.check
Callers == 1..NumCallers

\* RateLimiter.__init__(max_requests, window_seconds): no timestamps yet
RateLimiter(max, window) ==
    /\ max_requests = max
    /\ window_seconds = window
    /\ _timestamps = EmptyDict
    /\ allowed = EmptyDict
    /\ chk = [c \in Callers |-> Outside]

\* a module whose limiter lets one registration more through
Import_one_more(token) ==
    /\ RateLimiter(RegistrationMax + 1, RegistrationWindow)
    /\ REGISTRATION_TOKEN = token

\* the module after import: its limiter, and the token the environment sets
Import(token) ==
    /\ RateLimiter(RegistrationMax, RegistrationWindow)
    /\ REGISTRATION_TOKEN = token

\* the stores of a new provider, and the requests it has not answered yet
EmptyStores(pin, key) ==
    /\ consent_pin = pin
    /\ api_key = key
    /\ clients = EmptyDict
    /\ pending_consents = EmptyDict
    /\ _pin_failures = EmptyDict
    /\ auth_codes = EmptyDict
    /\ revoked_jtis = {}
    /\ next_consent = 1
    /\ next_code = 1
    /\ next_jti = 1
    /\ now = 0
    /\ att = [a \in Attempts |-> Idle]
    /\ issued = {}
    /\ rotated = {}
    /\ history = [c \in 1..MaxConsents |-> NoHistory]
    /\ exchanged = [c \in 1..MaxConsents |-> 0]
    /\ ret = Returned("init", <<>>, None)

\* BybitOAuthProvider.__init__(consent_pin=pin, api_key=key): empty stores
BybitOAuthProvider(pin, key) ==
    /\ EmptyStores(pin, key)
    /\ rreq = [r \in Refreshes |-> Idle]

\* the PIN is the operator's choice
Init == Import("") /\ \E pin \in ConfiguredPins : BybitOAuthProvider(pin, "")

\* ----------------------------------------------------------- authorization
authorize(client, params) ==
    /\ next_consent <= MaxConsents
    /\ pending_consents' = DictSet(pending_consents, next_consent,
                                   [client |-> client, params |-> params])
    /\ next_consent' = next_consent + 1
    /\ history' = [history EXCEPT ![next_consent].created = now]
    /\ ret' = Returned("authorize", <<>>, [consent_id |-> next_consent])
    /\ UNCHANGED <<config, reg_vars, _pin_failures, code_vars, token_vars, now>>

\* a comparison that accepts the empty string
compare_digest_empty_ok(a, b) == a = b \/ a = ""

\* secrets.compare_digest(a, b): string equality in constant time
compare_digest(a, b) == a = b

\* Strings holding a character outside ASCII, spelled with the code point.
NonAscii == {"p<U+00EF>n", "tok<U+00E9>n"}

\* secrets.compare_digest(a, b) raises TypeError when a str argument holds a
\* character outside ASCII
compare_digest_raises(a, b) == a \in NonAscii \/ b \in NonAscii

\* a code that drops the PKCE challenge of the request
AuthorizationCode_no_pkce(code, client, params) ==
    [code |-> code,
     scopes |-> OrEmpty(params.scopes),
     expires_at |-> now + _AUTH_CODE_TTL,
     client_id |-> client,
     code_challenge |-> "",
     redirect_uri |-> params.redirect_uri,
     redirect_uri_provided_explicitly |-> params.redirect_uri_provided_explicitly,
     resource |-> params.resource]

\* a code that grants every scope whatever the request asked for
AuthorizationCode_all_scopes(code, client, params) ==
    [code |-> code,
     scopes |-> <<"all">>,
     expires_at |-> now + _AUTH_CODE_TTL,
     client_id |-> client,
     code_challenge |-> params.code_challenge,
     redirect_uri |-> params.redirect_uri,
     redirect_uri_provided_explicitly |-> params.redirect_uri_provided_explicitly,
     resource |-> params.resource]

\* the AuthorizationCode approve_consent stores under `code`
AuthorizationCode(code, client, params) ==
    [code |-> code,
     scopes |-> OrEmpty(params.scopes),
     expires_at |-> now + _AUTH_CODE_TTL,
     client_id |-> client,
     code_challenge |-> params.code_challenge,
     redirect_uri |-> params.redirect_uri,
     redirect_uri_provided_explicitly |-> params.redirect_uri_provided_explicitly,
     resource |-> params.resource]

\* the PIN asked for whether or not one is configured
PinRequired_always == TRUE

\* `if self.consent_pin:`
PinRequired == consent_pin # ""

\* the lockout one attempt late
LockedOut_late(failures) == failures > _MAX_PIN_ATTEMPTS

\* `if failures >= self._MAX_PIN_ATTEMPTS:`
LockedOut(failures) == failures >= _MAX_PIN_ATTEMPTS

approve_consent(consent_id, pin) ==
    LET failures == DictGet(_pin_failures, consent_id, 0) IN
    /\ UNCHANGED <<config, reg_vars, next_consent, att, exchanged, token_vars, now>>
    /\ IF consent_id \notin DOMAIN pending_consents
       THEN /\ ret' = Raised("approve_consent", <<consent_id>>, "ValueError",
                             "Invalid or expired consent")
            /\ UNCHANGED <<pending_consents, _pin_failures, auth_codes, next_code,
                           history>>
       ELSE IF PinRequired /\ LockedOut(failures)
       THEN /\ pending_consents' = DictPop(pending_consents, consent_id)
            /\ _pin_failures' = DictPop(_pin_failures, consent_id)
            /\ ret' = Raised("approve_consent", <<consent_id>>, "InvalidPINError",
                             "Too many failed attempts. Authorization cancelled.")
            /\ UNCHANGED <<auth_codes, next_code, history>>
       ELSE IF PinRequired /\ compare_digest_raises(pin, consent_pin)
       THEN /\ ret' = Raised("approve_consent", <<consent_id>>, "TypeError",
                             "comparing strings with non-ASCII characters is not supported")
            /\ UNCHANGED <<pending_consents, _pin_failures, auth_codes, next_code,
                           history>>
       ELSE IF PinRequired /\ ~compare_digest(pin, consent_pin)
       THEN /\ _pin_failures' = DictSet(_pin_failures, consent_id, failures + 1)
            /\ ret' = Raised("approve_consent", <<consent_id>>, "InvalidPINError", "Invalid PIN")
            /\ history' = [history EXCEPT ![consent_id].wrong = @ + 1]
            /\ UNCHANGED <<pending_consents, auth_codes, next_code>>
       ELSE LET client == pending_consents[consent_id].client
                params == pending_consents[consent_id].params
                code   == next_code
            IN  /\ _pin_failures' = DictPop(_pin_failures, consent_id)
                /\ pending_consents' = DictPop(pending_consents, consent_id)
                /\ auth_codes' = DictSet(auth_codes, code,
                                         AuthorizationCode(code, client, params))
                /\ next_code' = next_code + 1
                /\ history' = [history EXCEPT ![consent_id].redirects = @ + 1,
                                              ![consent_id].codes = @ \cup {code}]
                /\ ret' = Returned("approve_consent", <<consent_id>>,
                                   Redirect(params.redirect_uri, code, "", params.state))

deny_consent(consent_id) ==
    /\ UNCHANGED <<config, reg_vars, _pin_failures, next_consent, code_vars,
                   token_vars, now>>
    /\ IF consent_id \notin DOMAIN pending_consents
       THEN /\ ret' = Raised("deny_consent", <<consent_id>>, "ValueError", "Invalid or expired consent")
            /\ UNCHANGED <<pending_consents, history>>
       ELSE LET params == pending_consents[consent_id].params
            IN  /\ pending_consents' = DictPop(pending_consents, consent_id)
                /\ history' = [history EXCEPT ![consent_id].redirects = @ + 1]
                /\ ret' = Returned("deny_consent", <<consent_id>>,
                                   Redirect(params.redirect_uri, 0, "access_denied",
                                            params.state))

\* `hasattr(params, "_created_at") and now - params._created_at > _AUTH_CODE_TTL`
\* selects the expired; each is popped from pending_consents
cleanup_expired_consents ==
    LET expired == {cid \in DOMAIN pending_consents :
                       /\ "_created_at" \in DOMAIN pending_consents[cid].params
                       /\ now - pending_consents[cid].params._created_at > _AUTH_CODE_TTL}
    IN  /\ pending_consents' = [cid \in DOMAIN pending_consents \ expired |->
                                  pending_consents[cid]]
        /\ ret' = Returned("cleanup_expired_consents", <<>>, None)
        /\ UNCHANGED <<config, reg_vars, _pin_failures, next_consent, history,
                       code_vars, token_vars, now>>

\* ------------------------------------------------------------ signed tokens
\* a token that expires the second it is signed
_create_jwt_no_ttl(sub, token_type, scopes, ttl, jti) ==
    [sub |-> sub, type |-> token_type, scopes |-> scopes, iat |-> now,
     exp |-> now, iss |-> ServiceId, aud |-> ServiceId, jti |-> jti,
     key |-> oauth_secret]

\* jwt.encode(payload, self.oauth_secret): the claims and the key that signed them
_create_jwt(sub, token_type, scopes, ttl, jti) ==
    [sub |-> sub, type |-> token_type, scopes |-> scopes, iat |-> now,
     exp |-> now + ttl, iss |-> ServiceId, aud |-> ServiceId, jti |-> jti,
     key |-> oauth_secret]

\* " ".join(scopes)
RECURSIVE Join(_)
Join(scopes) ==
    IF Len(scopes) = 0 THEN ""
    ELSE IF Len(scopes) = 1 THEN scopes[1]
    ELSE scopes[1] \o " " \o Join(Tail(scopes))

\* a token response that announces the refresh lifetime
OAuthToken_refresh_ttl(access_token, refresh_token, scopes) ==
    [access_token |-> access_token, token_type |-> "Bearer",
     expires_in |-> _REFRESH_TOKEN_TTL,
     scope |-> IF Len(scopes) > 0 THEN Some(Join(scopes)) ELSE None,
     refresh_token |-> refresh_token]

\* OAuthToken(access_token=, token_type="Bearer", expires_in=, scope=, refresh_token=)
OAuthToken(access_token, refresh_token, scopes) ==
    [access_token |-> access_token, token_type |-> "Bearer",
     expires_in |-> _ACCESS_TOKEN_TTL,
     scope |-> IF Len(scopes) > 0 THEN Some(Join(scopes)) ELSE None,
     refresh_token |-> refresh_token]

\* ------------------------------------------------------- authorization code
\* A token request of `client` presents the string `code`.  The requests are
\* interchangeable, so they are numbered in the order in which they load.
load_authorization_code(a, client, code) ==
    /\ att[a].pc = "idle"
    /\ \A b \in Attempts : b < a => att[b].pc # "idle"
    /\ LET found == DictGet(auth_codes, code, None) IN
       /\ att' = [att EXCEPT ![a] = IF found = None THEN Done
                                    ELSE [pc |-> "loaded", client |-> client,
                                          loaded |-> found]]
       /\ ret' = Returned("load_authorization_code", <<code>>, found)
    /\ UNCHANGED <<config, reg_vars, consent_vars, auth_codes, next_code, exchanged,
                   token_vars, now>>

\* exchange_authorization_code without its first statement, the pop
exchange_authorization_code_no_pop(a) ==
    /\ att[a].pc = "loaded"
    /\ LET authorization_code == att[a].loaded
           scopes == authorization_code.scopes
           access_token  == _create_jwt(att[a].client, "access", scopes,
                                        _ACCESS_TOKEN_TTL, next_jti)
           refresh_token == _create_jwt(att[a].client, "refresh", scopes,
                                        _REFRESH_TOKEN_TTL, next_jti + 1)
       IN  /\ auth_codes' = auth_codes
           /\ issued' = issued \cup {access_token, refresh_token}
           /\ next_jti' = next_jti + 2
           /\ exchanged' = [exchanged EXCEPT ![authorization_code.code] = @ + 1]
           /\ ret' = Returned("exchange_authorization_code",
                              <<authorization_code.code>>,
                              OAuthToken(access_token, refresh_token, scopes))
    /\ att' = [att EXCEPT ![a] = Done]
    /\ UNCHANGED <<config, reg_vars, consent_vars, next_code, revoked_jtis, rreq,
                   rotated, now>>

\* The request goes on with the AuthorizationCode it loaded.
exchange_authorization_code(a) ==
    /\ att[a].pc = "loaded"
    /\ LET authorization_code == att[a].loaded
           scopes == authorization_code.scopes
           access_token  == _create_jwt(att[a].client, "access", scopes,
                                        _ACCESS_TOKEN_TTL, next_jti)
           refresh_token == _create_jwt(att[a].client, "refresh", scopes,
                                        _REFRESH_TOKEN_TTL, next_jti + 1)
       IN  /\ auth_codes' = DictPop(auth_codes, authorization_code.code)
           /\ issued' = issued \cup {access_token, refresh_token}
           /\ next_jti' = next_jti + 2
           /\ exchanged' = [exchanged EXCEPT ![authorization_code.code] = @ + 1]
           /\ ret' = Returned("exchange_authorization_code",
                              <<authorization_code.code>>,
                              OAuthToken(access_token, refresh_token, scopes))
    /\ att' = [att EXCEPT ![a] = Done]
    /\ UNCHANGED <<config, reg_vars, consent_vars, next_code, revoked_jtis, rreq,
                   rotated, now>>

\* ------------------------------------------------------------ verification
\* a presented string that is not a signed token
Raw(s) == [raw |-> s]

\* a token of the tests (test_auth.py:191): signed with another secret; its
\* jti is one the provider never draws
ForgedTokens ==
    { [sub |-> "client-a", type |-> "refresh", scopes |-> <<>>, iat |-> 0,
       exp |-> _REFRESH_TOKEN_TTL, iss |-> ServiceId, aud |-> ServiceId, jti |-> 0,
       key |-> "wrong-secret"] }

\* the strings a caller can present as a token
Presentable == issued \cup ForgedTokens

\* a decode that accepts any audience
_decode_jwt_no_audience(token, skip_revocation_check) ==
    IF "raw" \in DOMAIN token THEN None
    ELSE IF \/ token.key # oauth_secret
            \/ token.iss # ServiceId
            \/ token.exp <= now
    THEN None
    ELSE IF ~skip_revocation_check /\ token.jti \in revoked_jtis THEN None
    ELSE [k \in DOMAIN token \ {"key"} |-> token[k]]

\* a decode that does not consult the blacklist
_decode_jwt_no_blacklist(token, skip_revocation_check) ==
    IF "raw" \in DOMAIN token THEN None
    ELSE IF \/ token.key # oauth_secret
            \/ token.iss # ServiceId
            \/ token.aud # ServiceId
            \/ token.exp <= now
    THEN None
    ELSE [k \in DOMAIN token \ {"key"} |-> token[k]]

\* jwt.decode checks signature, issuer, audience and expiry (exp <= now is
\* expired); then the jti blacklist unless skip_revocation_check
_decode_jwt(token, skip_revocation_check) ==
    IF "raw" \in DOMAIN token THEN None
    ELSE IF \/ token.key # oauth_secret
            \/ token.iss # ServiceId
            \/ token.aud # ServiceId
            \/ token.exp <= now
    THEN None
    ELSE IF ~skip_revocation_check /\ token.jti \in revoked_jtis THEN None
    ELSE [k \in DOMAIN token \ {"key"} |-> token[k]]

\* the strings of the API-key tests (test_auth.py:224-238) and the empty string
KeyStrings == {Raw(""), Raw("my-api-key"), Raw("wrong-key"), Raw("any-key")}

\* a load that does not look at the token's type
AccessToken_any_type(token) ==
    IF api_key # "" /\ compare_digest(token, Raw(api_key))
    THEN [token |-> token, client_id |-> "api-key", scopes |-> <<"all">>,
          expires_at |-> None]
    ELSE LET payload == _decode_jwt(token, FALSE) IN
         IF payload = None THEN None
         ELSE [token |-> token, client_id |-> payload.sub, scopes |-> payload.scopes,
               expires_at |-> Some(payload.exp)]

\* a load that compares with the key even when none is configured
AccessToken_unguarded(token) ==
    IF compare_digest(token, Raw(api_key))
    THEN [token |-> token, client_id |-> "api-key", scopes |-> <<"all">>,
          expires_at |-> None]
    ELSE LET payload == _decode_jwt(token, FALSE) IN
         IF payload = None THEN None
         ELSE IF payload.type # "access" THEN None
         ELSE [token |-> token, client_id |-> payload.sub, scopes |-> payload.scopes,
               expires_at |-> Some(payload.exp)]

\* a load that honours the API key only while nothing has been revoked
AccessToken_key_until_revocation(token) ==
    IF api_key # "" /\ compare_digest(token, Raw(api_key)) /\ revoked_jtis = {}
    THEN [token |-> token, client_id |-> "api-key", scopes |-> <<"all">>,
          expires_at |-> None]
    ELSE LET payload == _decode_jwt(token, FALSE) IN
         IF payload = None THEN None
         ELSE IF payload.type # "access" THEN None
         ELSE [token |-> token, client_id |-> payload.sub, scopes |-> payload.scopes,
               expires_at |-> Some(payload.exp)]

\* what load_access_token(token) returns
AccessToken(token) ==
    IF api_key # "" /\ compare_digest(token, Raw(api_key))
    THEN [token |-> token, client_id |-> "api-key", scopes |-> <<"all">>,
          expires_at |-> None]
    ELSE LET payload == _decode_jwt(token, FALSE) IN
         IF payload = None THEN None
         ELSE IF payload.type # "access" THEN None
         ELSE [token |-> token, client_id |-> payload.sub, scopes |-> payload.scopes,
               expires_at |-> Some(payload.exp)]

\* a load that hands the refresh token to whichever client presents it
RefreshToken_unbound(client, refresh_token) ==
    LET payload == _decode_jwt(refresh_token, FALSE) IN
    IF payload = None THEN None
    ELSE IF payload.type # "refresh" THEN None
    ELSE [token |-> refresh_token, client_id |-> payload.sub,
          scopes |-> payload.scopes, expires_at |-> Some(payload.exp)]

\* what load_refresh_token(client, refresh_token) returns
RefreshToken(client, refresh_token) ==
    LET payload == _decode_jwt(refresh_token, FALSE) IN
    IF payload = None THEN None
    ELSE IF payload.type # "refresh" THEN None
    ELSE IF payload.sub # client THEN None
    ELSE [token |-> refresh_token, client_id |-> payload.sub,
          scopes |-> payload.scopes, expires_at |-> Some(payload.exp)]

\* a direct call of _create_jwt, as the tests make it
call_create_jwt(sub, token_type, scopes, ttl) ==
    /\ next_jti <= MaxTokens
    /\ LET token == _create_jwt(sub, token_type, scopes, ttl, next_jti) IN
       /\ issued' = issued \cup {token}
       /\ ret' = Returned("_create_jwt", <<sub, token_type, scopes, ttl>>, token)
    /\ next_jti' = next_jti + 1
    /\ UNCHANGED <<config, reg_vars, consent_vars, code_vars, revoked_jtis, rreq,
                   rotated, now>>

load_access_token(token) ==
    /\ ret' = IF /\ api_key # ""
                 /\ "raw" \in DOMAIN token
                 /\ compare_digest_raises(token.raw, api_key)
              THEN Raised("load_access_token", <<token>>, "TypeError",
                          "comparing strings with non-ASCII characters is not supported")
              ELSE Returned("load_access_token", <<token>>, AccessToken(token))
    /\ UNCHANGED <<config, reg_vars, consent_vars, code_vars, token_vars, now>>

\* A refresh request of `client` presents the string `refresh_token`; it takes
\* the first free slot, which is free again once the request is answered.
load_refresh_token(r, client, refresh_token) ==
    /\ rreq[r].pc = "idle"
    /\ \A b \in DOMAIN rreq : b < r => rreq[b].pc # "idle"
    /\ LET found == RefreshToken(client, refresh_token) IN
       /\ rreq' = [rreq EXCEPT ![r] = IF found = None THEN Idle
                                      ELSE [pc |-> "loaded", client |-> client,
                                            loaded |-> found]]
       /\ ret' = Returned("load_refresh_token", <<refresh_token>>, found)
    /\ UNCHANGED <<config, reg_vars, consent_vars, code_vars, revoked_jtis, next_jti,
                   issued, rotated, now>>

\* an exchange that carries the old scopes over whatever the caller asks for
exchange_refresh_token_keeps_scopes(r, scopes) ==
    /\ rreq[r].pc = "loaded"
    /\ next_jti + 1 <= MaxJti
    /\ LET client == rreq[r].client
           refresh_token == rreq[r].loaded
           use_scopes == refresh_token.scopes
           old_payload == _decode_jwt(refresh_token.token, TRUE)
           access_token == _create_jwt(client, "access", use_scopes,
                                       _ACCESS_TOKEN_TTL, next_jti)
           new_refresh  == _create_jwt(client, "refresh", use_scopes,
                                       _REFRESH_TOKEN_TTL, next_jti + 1)
       IN  /\ revoked_jtis' = IF old_payload # None
                              THEN revoked_jtis \cup {old_payload.jti}
                              ELSE revoked_jtis
           /\ issued' = issued \cup {access_token, new_refresh}
           /\ next_jti' = next_jti + 2
           /\ rotated' = rotated \cup {refresh_token.token}
           /\ ret' = Returned("exchange_refresh_token", <<refresh_token.token>>,
                              OAuthToken(access_token, new_refresh, use_scopes))
    /\ rreq' = [rreq EXCEPT ![r] = Idle]
    /\ UNCHANGED <<config, reg_vars, consent_vars, code_vars, now>>

\* The request goes on with the RefreshToken it loaded.
exchange_refresh_token(r, scopes) ==
    /\ rreq[r].pc = "loaded"
    /\ next_jti + 1 <= MaxJti
    /\ LET client == rreq[r].client
           refresh_token == rreq[r].loaded
           use_scopes == IF Len(scopes) > 0 THEN scopes ELSE refresh_token.scopes
           old_payload == _decode_jwt(refresh_token.token, TRUE)
           access_token == _create_jwt(client, "access", use_scopes,
                                       _ACCESS_TOKEN_TTL, next_jti)
           new_refresh  == _create_jwt(client, "refresh", use_scopes,
                                       _REFRESH_TOKEN_TTL, next_jti + 1)
       IN  /\ revoked_jtis' = IF old_payload # None
                              THEN revoked_jtis \cup {old_payload.jti}
                              ELSE revoked_jtis
           /\ issued' = issued \cup {access_token, new_refresh}
           /\ next_jti' = next_jti + 2
           /\ rotated' = rotated \cup {refresh_token.token}
           /\ ret' = Returned("exchange_refresh_token", <<refresh_token.token>>,
                              OAuthToken(access_token, new_refresh, use_scopes))
    /\ rreq' = [rreq EXCEPT ![r] = Idle]
    /\ UNCHANGED <<config, reg_vars, consent_vars, code_vars, now>>

\* a revocation that keeps only the id it was last given
revoke_token_replaces(token) ==
    LET payload == _decode_jwt(token, TRUE) IN
    /\ revoked_jtis' = IF payload # None THEN {payload.jti} ELSE revoked_jtis
    /\ ret' = Returned("revoke_token", <<token>>, None)
    /\ UNCHANGED <<config, reg_vars, consent_vars, code_vars, next_jti, rreq, issued,
                   rotated, now>>

\* a revocation that trusts the jti of any signed token it is given
revoke_token_unverified(token) ==
    /\ revoked_jtis' = IF "raw" \in DOMAIN token
                       THEN revoked_jtis
                       ELSE revoked_jtis \cup {token.jti}
    /\ ret' = Returned("revoke_token", <<token>>, None)
    /\ UNCHANGED <<config, reg_vars, consent_vars, code_vars, next_jti, rreq, issued,
                   rotated, now>>

\* revoke_token(token) with token.token = `token`
revoke_token(token) ==
    LET payload == _decode_jwt(token, TRUE) IN
    /\ revoked_jtis' = IF payload # None
                       THEN revoked_jtis \cup {payload.jti}
                       ELSE revoked_jtis
    /\ ret' = Returned("revoke_token", <<token>>, None)
    /\ UNCHANGED <<config, reg_vars, consent_vars, code_vars, next_jti, rreq, issued,
                   rotated, now>>

\* a token encoded by hand as the tests do (test_auth.py:139-205), not
\* expired before the clock reaches exp
TestToken(exp, iss, aud, key) ==
    [sub |-> "client-a", type |-> "access", scopes |-> <<>>, iat |-> 0,
     exp |-> exp, iss |-> iss, aud |-> aud, jti |-> 0, key |-> key]

\* one with nothing wrong but its age, one per single defect, one with all
TestTokens ==
    { TestToken(_REFRESH_TOKEN_TTL, ServiceId, ServiceId, oauth_secret),
      TestToken(_REFRESH_TOKEN_TTL, "wrong-issuer", ServiceId, oauth_secret),
      TestToken(_REFRESH_TOKEN_TTL, ServiceId, "wrong-audience", oauth_secret),
      TestToken(_REFRESH_TOKEN_TTL, ServiceId, ServiceId, "wrong-secret"),
      TestToken(0, "wrong-issuer", "wrong-audience", "wrong-secret") }

\* what a caller of the verification endpoints can present: the issued
\* tokens, the hand-made ones, the API key and a string that is no token
Presented == issued \cup TestTokens \cup {Raw("my-api-key"), Raw("not-a-token")}

\* -------------------------------------------------------------------- time
Tick(d) ==
    /\ now < MaxTicks * d
    /\ now' = now + d
    /\ UNCHANGED <<config, reg_vars, consent_vars, code_vars, token_vars, ret>>

\* ------------------------------------------------------------ rate limiter
\* a prune that keeps the timestamp lying exactly on the cutoff
Prune_inclusive(ts, cutoff) == SelectSeq(ts, LAMBDA t : t >= cutoff)

\* [t for t in self._timestamps[key] if t > cutoff]
Prune(ts, cutoff) == SelectSeq(ts, LAMBDA t : t > cutoff)

\* one list shared by all keys
Bucket_shared(key) == "shared"

\* self._timestamps[key]: every key has a list of its own
Bucket(key) == key

\* the limiter's other fields, which check never assigns
limiter_params == <<max_requests, window_seconds>>

\* what check(key) keeps of the key's list: the timestamps inside the window
check_kept(key) == Prune(DictGet(_timestamps, Bucket(key), <<>>), now - window_seconds)

\* `if len(self._timestamps[key]) >= self.max_requests: return False`
check_ok(key) == ~(Len(check_kept(key)) >= max_requests)

\* self._timestamps after check(key): pruned, and with now appended if allowed
check_timestamps(key) ==
    DictSet(_timestamps, Bucket(key),
            IF check_ok(key) THEN Append(check_kept(key), now) ELSE check_kept(key))

\* the log of the allowed checks after check(key)
check_allowed(key) ==
    IF check_ok(key)
    THEN DictSet(allowed, key, Append(DictGet(allowed, key, <<>>), now))
    ELSE allowed

\* RateLimiter.check(key) run by one thread without interruption
check(key) ==
    /\ _timestamps' = check_timestamps(key)
    /\ allowed' = check_allowed(key)
    /\ ret' = Returned("check", <<key>>, check_ok(key))
    /\ UNCHANGED <<config, clients, limiter_params, chk, consent_vars, code_vars,
                   token_vars, now>>

\* A limiter of the tests, checked key by key while the clock runs in steps of
\* half a window and of a whole window.
InitLimiter ==
    /\ \E l \in LimiterConfigs : RateLimiter(l.max_requests, l.window_seconds)
    /\ REGISTRATION_TOKEN = ""
    /\ BybitOAuthProvider("", "")

NextLimiter ==
    \/ \E key \in LimiterKeys : check(key)
    \/ \E d \in {window_seconds \div 2, window_seconds} : Tick(d)

SpecLimiter == InitLimiter /\ [][NextLimiter]_vars

\* ------------------------------------------------------ client registration
get_client(client_id) ==
    /\ ret' = Returned("get_client", <<client_id>>, DictGet(clients, client_id, None))
    /\ UNCHANGED <<config, reg_vars, consent_vars, code_vars, token_vars, now>>

\* The call of _registration_limiter.check("global") is part of the method.
register_client(client_info) ==
    /\ _timestamps' = check_timestamps("global")
    /\ allowed' = check_allowed("global")
    /\ IF ~check_ok("global")
       THEN /\ ret' = Raised("register_client", <<client_info>>, "RegistrationError",
                             "Rate limit exceeded. Try again later.")
            /\ clients' = clients
       ELSE /\ clients' = DictSet(clients, client_info.client_id, client_info)
            /\ ret' = Returned("register_client", <<client_info>>, None)
    /\ UNCHANGED <<config, limiter_params, chk, consent_vars, code_vars, token_vars, now>>

\* The registration endpoint of a provider with or without a consent PIN, the
\* registration token set or not, while the clock runs in steps of half a
\* window and of a whole window of the registration limiter.
InitRegister ==
    /\ \E token \in RegistrationTokens : Import(token)
    /\ \E pin \in ConfiguredPins : BybitOAuthProvider(pin, "")

NextRegister ==
    \/ \E client_info \in ClientInfos : register_client(client_info)
    \/ \E client_id \in ClientIds : get_client(client_id)
    \/ \E d \in {RegistrationWindow \div 2, RegistrationWindow} : Tick(d)

SpecRegister == InitRegister /\ [][NextRegister]_vars

\* ------------------------------------------------- rate limiter, by threads
\* RateLimiter.check holds no lock.  Threads that call it are switched between
\* its statements: each statement below is one step of one thread, and the
\* list comprehension reads the list in one step and stores its result in the
\* next.
others == <<config, clients, limiter_params, consent_vars, code_vars, token_vars, now>>

\* now = time.monotonic(); cutoff = now - self.window_seconds
check_enter(c, key) ==
    /\ chk[c].pc = "outside"
    /\ \A b \in Callers : b < c => chk[b].pc # "outside"
    /\ Len(DictGet(allowed, key, <<>>)) < max_requests + MaxExcess
    /\ chk' = [chk EXCEPT ![c] = [pc |-> "read", key |-> key, now |-> now,
                                  cutoff |-> now - window_seconds, kept |-> <<>>]]
    /\ UNCHANGED <<others, _timestamps, allowed, ret>>

\* [t for t in self._timestamps[key] if t > cutoff]
check_prune_read(c) ==
    /\ chk[c].pc = "read"
    /\ chk' = [chk EXCEPT ![c].pc = "store",
                          ![c].kept = Prune(DictGet(_timestamps, Bucket(chk[c].key), <<>>),
                                            chk[c].cutoff)]
    /\ UNCHANGED <<others, _timestamps, allowed, ret>>

\* self._timestamps[key] = ...
check_prune_store(c) ==
    /\ chk[c].pc = "store"
    /\ _timestamps' = DictSet(_timestamps, Bucket(chk[c].key), chk[c].kept)
    /\ chk' = [chk EXCEPT ![c].pc = "test", ![c].kept = <<>>]
    /\ UNCHANGED <<others, allowed, ret>>

\* if len(self._timestamps[key]) >= self.max_requests: return False
check_test(c) ==
    /\ chk[c].pc = "test"
    /\ IF Len(DictGet(_timestamps, Bucket(chk[c].key), <<>>)) >= max_requests
       THEN /\ chk' = [chk EXCEPT ![c] = Outside]
            /\ ret' = Returned("check", <<chk[c].key>>, FALSE)
       ELSE /\ chk' = [chk EXCEPT ![c].pc = "append"]
            /\ ret' = ret
    /\ UNCHANGED <<others, _timestamps, allowed>>

\* self._timestamps[key].append(now); return True
check_append(c) ==
    /\ chk[c].pc = "append"
    /\ _timestamps' = DictSet(_timestamps, Bucket(chk[c].key),
                              Append(DictGet(_timestamps, Bucket(chk[c].key), <<>>),
                                     chk[c].now))
    /\ allowed' = DictSet(allowed, chk[c].key,
                          Append(DictGet(allowed, chk[c].key, <<>>), chk[c].now))
    /\ chk' = [chk EXCEPT ![c] = Outside]
    /\ ret' = Returned("check", <<chk[c].key>>, TRUE)
    /\ UNCHANGED others

NextLimiterThreads ==
    \/ \E c \in Callers, key \in LimiterKeys : check_enter(c, key)
    \/ \E c \in Callers : check_prune_read(c)
    \/ \E c \in Callers : check_prune_store(c)
    \/ \E c \in Callers : check_test(c)
    \/ \E c \in Callers : check_append(c)
    \/ Tick(window_seconds)

SpecLimiterThreads == InitLimiter /\ [][NextLimiterThreads]_vars

\* --------------------------------------------------------- the consent flow
Next ==
    \/ \E r \in AuthRequests : authorize(r.client, r.params)
    \/ \E consent_id \in ConsentIds, pin \in Pins : approve_consent(consent_id, pin)
    \/ \E consent_id \in ConsentIds : deny_consent(consent_id)

Spec == Init /\ [][Next]_vars

\* ------------------------------------------- the authorization-code grant
\* The server builds its provider without a consent PIN (server.py:23).  The
\* user approves pending consents (the failing paths of the consent page are
\* those of Spec); the token endpoint loads and exchanges the codes.
InitCode == Import("") /\ BybitOAuthProvider("", "")

NextCode ==
    \/ \E r \in AuthRequests : authorize(r.client, r.params)
    \/ \E consent_id \in DOMAIN pending_consents : approve_consent(consent_id, "")
    \/ \E a \in Attempts, client \in ClientIds, code \in CodeIds :
          load_authorization_code(a, client, code)
    \/ \E a \in Attempts : exchange_authorization_code(a)

SpecCode == InitCode /\ [][NextCode]_vars

\* ------------------------------------------------- tokens and their rotation
\* The provider of the server, no static API key set.  Tokens are signed,
\* verified, refreshed and revoked while the clock runs; a tick takes the clock
\* to the expiry of the refresh tokens signed at the current time (the access
\* tokens signed then have expired as well).
InitTokens == Import("") /\ BybitOAuthProvider("", "")

NextTokens ==
    \/ \E q \in TokenRequests : call_create_jwt(q.sub, q.token_type, q.scopes, q.ttl)
    \/ \E token \in Presentable : load_access_token(token)
    \/ \E r \in Refreshes, client \in ClientIds, token \in Presentable :
          load_refresh_token(r, client, token)
    \/ /\ next_jti + 1 <= MaxTokens
       /\ \E r \in Refreshes, scopes \in RefreshScopes :
             exchange_refresh_token(r, scopes)
    \/ \E token \in Presentable : revoke_token(token)
    \/ Tick(_REFRESH_TOKEN_TTL)

SpecTokens == InitTokens /\ [][NextTokens]_vars

\* ------------------------------------------------------ token verification
\* The provider with a static API key, as server.py builds it.  Tokens of several kinds are
\* signed, then verified and revoked together with hand-made and malformed
\* ones, before and after the clock passes the refresh lifetime.  A refresh
\* request is followed as far as its load; its exchange is SpecTokens'.
InitVerify == Import("") /\ BybitOAuthProvider("", "my-api-key")

NextVerify ==
    \/ /\ next_jti <= MaxIssued
       /\ \E q \in IssueRequests :
             call_create_jwt(q.sub, q.token_type, q.scopes, q.ttl)
    \/ \E token \in Presented : load_access_token(token)
    \/ \E r \in Refreshes, client \in ClientIds, token \in Presented :
          load_refresh_token(r, client, token)
    \/ \E token \in Presented : revoke_token(token)
    \/ Tick(_REFRESH_TOKEN_TTL)

SpecVerify == InitVerify /\ [][NextVerify]_vars

\* ------------------------------------------------------- the static API key
\* The operator sets a static API key or none.  Callers present the key, other
\* strings and signed tokens while tokens are signed and revoked and the
\* clock passes their lifetime.
ApiKeys == {"", "my-api-key"}

InitApiKey == Import("") /\ \E key \in ApiKeys : BybitOAuthProvider("", key)

NextApiKey ==
    \/ /\ next_jti <= MaxIssued
       /\ \E q \in IssueRequests :
             call_create_jwt(q.sub, q.token_type, q.scopes, q.ttl)
    \/ \E token \in issued \cup TestTokens \cup KeyStrings : load_access_token(token)
    \/ \E token \in issued \cup KeyStrings : revoke_token(token)
    \/ Tick(_REFRESH_TOKEN_TTL)

SpecApiKey == InitApiKey /\ [][NextApiKey]_vars

\* ------------------------------------------------------- the end-to-end flow
\* The provider of the server (no consent PIN).  A client registers once, the
\* authorization endpoint calls authorize for a registered client, the user
\* approves, the client that was given the code presents it to the token
\* endpoint and then presents the tokens it got.
InitFlow == Import("") /\ BybitOAuthProvider("", "")

NextFlow ==
    \/ \E client_info \in ClientInfos :
          /\ client_info.client_id \notin DOMAIN clients
          /\ register_client(client_info)
    \/ \E r \in AuthRequests :
          /\ r.client \in DOMAIN clients
          /\ authorize(r.client, r.params)
    \/ \E consent_id \in DOMAIN pending_consents : approve_consent(consent_id, "")
    \/ \E a \in Attempts, code \in DOMAIN auth_codes :
          load_authorization_code(a, auth_codes[code].client_id, code)
    \/ \E a \in Attempts : exchange_authorization_code(a)
    \/ \E token \in issued : load_access_token(token)

SpecFlow == InitFlow /\ [][NextFlow]_vars

\* ----------------------------------------------------- the consent endpoint
\* the values of the form field `action` (anything but "approve" denies)
FormActions == {"approve", "deny"}

\* `except ValueError` also catches InvalidPINError, a subclass of ValueError
IsValueError(exc) == exc \in {"ValueError", "InvalidPINError"}

\* Response("Invalid or expired consent request", status_code=400)
BadRequest == [status |-> 400, body |-> "Invalid or expired consent request"]

\* What consent_page answers to a POST after the provider call with outcome r:
\* a redirect to the URL the call returned, or 400 when it raised a ValueError.
consent_response(r) ==
    IF r.raised = "" THEN [status |-> 302, location |-> r.value]
    ELSE IF IsValueError(r.raised) THEN BadRequest
    ELSE [status |-> 500, body |-> r.raised]

\* GET /consent?id=consent_id: the page, or 400 for an id that is not pending
consent_page_get(consent_id) ==
    /\ ret' = Returned("consent_page_get", <<consent_id>>,
                       IF consent_id \notin DOMAIN pending_consents
                       THEN BadRequest
                       ELSE [status |-> 200, body |-> consent_id])
    /\ UNCHANGED <<config, reg_vars, consent_vars, code_vars, token_vars, now>>

\* POST /consent with the form fields consent_id, action and pin: the handler
\* reads consent_id and action only, and calls approve_consent(consent_id)
\* with the default pin "" or deny_consent(consent_id).  ret holds the
\* provider call; the handler answers consent_response(ret).
consent_page_post(consent_id, action, pin) ==
    IF action = "approve"
    THEN approve_consent(consent_id, "")
    ELSE deny_consent(consent_id)

\* The endpoint in front of a provider built with or without a consent PIN.
InitEndpoint == Import("") /\ \E p \in ConfiguredPins : BybitOAuthProvider(p, "")

NextEndpoint ==
    \/ \E r \in AuthRequests : authorize(r.client, r.params)
    \/ \E consent_id \in ConsentIds : consent_page_get(consent_id)
    \/ \E consent_id \in ConsentIds, action \in FormActions, pin \in Pins :
          consent_page_post(consent_id, action, pin)

SpecEndpoint == InitEndpoint /\ [][NextEndpoint]_vars

\* ------------------------------------------------------- the consent sweep
\* The provider of the server (no consent PIN).  Consents are created,
\* approved and denied while the clock moves by a second or by the lifetime
\* of an authorization code, and the sweep runs at any time.
InitSweep == Import("") /\ BybitOAuthProvider("", "")

NextSweep ==
    \/ \E r \in AuthRequests : authorize(r.client, r.params)
    \/ \E consent_id \in ConsentIds : approve_consent(consent_id, "")
    \/ \E consent_id \in ConsentIds : deny_consent(consent_id)
    \/ cleanup_expired_consents
    \/ \E d \in {1, _AUTH_CODE_TTL} : Tick(d)

SpecSweep == InitSweep /\ [][NextSweep]_vars

\* ------------------------------------------------------- scopes on refresh
\* the scope lists a refresh request may carry: none, one scope, two scopes
ScopeLists == {<<>>, <<"trade">>, <<"read", "trade">>}

\* The provider of the server.  Tokens with and without scopes are signed,
\* refresh requests load them and exchange them asking for any scope list,
\* and the new access tokens are presented.
InitScopes == Import("") /\ BybitOAuthProvider("", "")

NextScopes ==
    \/ \E q \in IssueRequests : call_create_jwt(q.sub, q.token_type, q.scopes, q.ttl)
    \/ \E r \in Refreshes, client \in ClientIds, token \in issued :
          load_refresh_token(r, client, token)
    \/ /\ next_jti + 1 <= MaxTokens
       /\ \E r \in Refreshes, scopes \in ScopeLists : exchange_refresh_token(r, scopes)
    \/ \E token \in issued : load_access_token(token)

SpecScopes == InitScopes /\ [][NextScopes]_vars

\* ------------------------------------------------------- arbitrary inputs
\* Callers hand the provider any string: PINs and tokens that are empty,
\* malformed, forged or hold characters outside ASCII; consent ids the provider
\* never drew.  The provider has any of the PINs and API keys.
AnyPins == {"", "secret-pin", "p<U+00EF>n"}

AnyTokens ==
    issued \cup ForgedTokens \cup {Raw(""), Raw("not-a-token"), Raw("tok<U+00E9>n")}

AnyConsentIds == 0..MaxConsents

InitInputs ==
    /\ Import("")
    /\ \E pin \in ConfiguredPins, key \in ApiKeys : BybitOAuthProvider(pin, key)

NextInputs ==
    \/ /\ next_jti <= MaxIssued
       /\ \E q \in IssueRequests :
             call_create_jwt(q.sub, q.token_type, q.scopes, q.ttl)
    \/ \E r \in AuthRequests : authorize(r.client, r.params)
    \/ \E consent_id \in AnyConsentIds, pin \in AnyPins :
          approve_consent(consent_id, pin)
    \/ \E token \in AnyTokens : load_access_token(token)
    \/ \E r \in Refreshes, client \in ClientIds, token \in AnyTokens :
          load_refresh_token(r, client, token)
    \/ \E token \in AnyTokens : revoke_token(token)

SpecInputs == InitInputs /\ [][NextInputs]_vars

\* ------------------------------------------------- concurrent refresh requests
\* The provider of the server with NumRacing refresh requests in flight: the
\* token endpoint awaits load_refresh_token and exchange_refresh_token one
\* after the other for each request, and requests interleave between the two.
Racing == 1..NumRacing

InitRace ==
    /\ Import("")
    /\ EmptyStores("", "")
    /\ rreq = [r \in Racing |-> Idle]

NextRace ==
    \/ /\ next_jti <= MaxIssued
       /\ \E q \in TokenRequests : call_create_jwt(q.sub, q.token_type, q.scopes, q.ttl)
    \/ \E r \in Racing, client \in ClientIds, token \in issued :
          load_refresh_token(r, client, token)
    \/ \E r \in Racing : exchange_refresh_token(r, <<>>)
    \/ \E token \in issued : load_access_token(token)

SpecRace == InitRace /\ [][NextRace]_vars

\* ------------------------------------------------- codes that grow old
\* The authorization-code grant of SpecCode while the clock runs past the
\* lifetime of a code.
InitExpiry == Import("") /\ BybitOAuthProvider("", "")

NextExpiry ==
    \/ \E r \in AuthRequests : authorize(r.client, r.params)
    \/ \E consent_id \in DOMAIN pending_consents : approve_consent(consent_id, "")
    \/ \E a \in Attempts, code \in CodeIds :
          load_authorization_code(a, auth_codes[code].client_id, code)
    \/ \E a \in Attempts : exchange_authorization_code(a)
    \/ Tick(_AUTH_CODE_TTL + 1)

SpecExpiry == InitExpiry /\ [][NextExpiry]_vars

\* ------------------------------------------- the API key among revocations
\* A provider with the API key of the server.  Refresh tokens are signed,
\* rotated and revoked; callers present the key and the tokens, and ask to
\* revoke the key as they ask to revoke a token.
TheKey == Raw("my-api-key")

InitKey == Import("") /\ BybitOAuthProvider("", "my-api-key")

NextKey ==
    \/ /\ next_jti <= MaxIssued
       /\ \E q \in IssueRequests : call_create_jwt(q.sub, q.token_type, q.scopes, q.ttl)
    \/ \E token \in issued \cup {TheKey, Raw("wrong-key")} : load_access_token(token)
    \/ \E r \in Refreshes, client \in ClientIds, token \in issued :
          load_refresh_token(r, client, token)
    \/ /\ next_jti + 1 <= MaxTokens
       /\ \E r \in Refreshes : exchange_refresh_token(r, <<>>)
    \/ \E token \in issued \cup {TheKey} : revoke_token(token)

SpecKey == InitKey /\ [][NextKey]_vars

\* ------------------------------------------------ the consent stores, swept
\* The consent flow of Spec with the sweep of old consents running between
\* the calls.
NextMint ==
    \/ \E r \in AuthRequests : authorize(r.client, r.params)
    \/ \E consent_id \in ConsentIds, pin \in Pins : approve_consent(consent_id, pin)
    \/ \E consent_id \in ConsentIds : deny_consent(consent_id)
    \/ cleanup_expired_consents

SpecMint == Init /\ [][NextMint]_vars

\* ---------------------------------------------------------------- claims
\* everything but ret
stores == <<config, reg_vars, consent_vars, code_vars, token_vars, now>>

\* the step is the call A of the operation op on args (every call leaves its
\* name and arguments in ret)
Call(op, args, A) == ret'.op = op /\ ret'.args = args /\ A

NotFound(r) == r.raised = "ValueError" /\ r.msg = "Invalid or expired consent"
InvalidPin(r) == r.raised = "InvalidPINError" /\ r.msg = "Invalid PIN"
Lockout(r) ==
    /\ r.raised = "InvalidPINError"
    /\ r.msg = "Too many failed attempts. Authorization cancelled."

\* C1: a code that exchange_authorization_code has run on is absent from the
\* store, and load_authorization_code returns a code only while no exchange
\* has run on it: every attempt that starts after the first exchange gets None.
C1_CodeSingleUse ==
    /\ \A c \in 1..MaxConsents : exchanged[c] > 0 => c \notin DOMAIN auth_codes
    /\ (ret.op = "load_authorization_code" /\ ret.value # None)
          => exchanged[ret.args[1]] = 0
    /\ (ret.op = "load_authorization_code" /\ ret.args[1] \in 1..MaxConsents
          /\ exchanged[ret.args[1]] > 0) => ret.value = None

\* a load after the exchange of the same code returned None
C1_Witness ==
    /\ ret.op = "load_authorization_code"
    /\ ret.args[1] = 1
    /\ exchanged[1] = 1
    /\ ret.value = None

\* C2: two interleaved attempts on one code never both obtain a token pair.
C2_InterleavedAttemptsYieldOnePair ==
    \A c \in 1..MaxConsents : exchanged[c] <= 1

\* C3: a consent_id yields at most one redirect target; once it has left the
\* pending store it never returns, and approve_consent and deny_consent on it
\* raise "Invalid or expired consent" and change nothing.
C3_ConsentSingleUse ==
    [][\A cid \in 1..MaxConsents :
         /\ history'[cid].redirects <= 1
         /\ (cid < next_consent /\ cid \notin DOMAIN pending_consents) =>
              /\ cid \notin DOMAIN pending_consents'
              /\ \A pin \in Pins :
                   Call("approve_consent", <<cid>>, approve_consent(cid, pin)) =>
                     NotFound(ret') /\ UNCHANGED stores
              /\ Call("deny_consent", <<cid>>, deny_consent(cid)) =>
                     NotFound(ret') /\ UNCHANGED stores]_vars

\* a call on a consumed consent_id was refused
C3_Witness ==
    /\ ret.op \in {"approve_consent", "deny_consent"}
    /\ NotFound(ret)
    /\ ret.args[1] >= 1
    /\ history[ret.args[1]].redirects = 1

\* C4: of the approve_consent and deny_consent calls racing on one consent_id
\* at most one succeeds and at most one code is minted; a call that comes
\* after the winner finds the record gone.
C4_OneWinner ==
    /\ [](\A cid \in 1..MaxConsents :
            /\ history[cid].redirects <= 1
            /\ Cardinality(history[cid].codes) <= 1)
    /\ [][\A cid \in 1..MaxConsents : history[cid].redirects = 1 =>
            /\ \A pin \in Pins :
                 Call("approve_consent", <<cid>>, approve_consent(cid, pin)) =>
                   NotFound(ret') /\ history' = history /\ auth_codes' = auth_codes
            /\ Call("deny_consent", <<cid>>, deny_consent(cid)) =>
                   NotFound(ret') /\ history' = history /\ auth_codes' = auth_codes]_vars

\* a second approval of an approved consent was refused
C4_Witness ==
    /\ ret.op = "approve_consent"
    /\ NotFound(ret)
    /\ ret.args[1] >= 1
    /\ Cardinality(history[ret.args[1]].codes) = 1

\* C5: with a PIN configured, the approve_consent that follows 5 wrong-PIN
\* calls on a pending consent raises the lockout error for every PIN, mints
\* no code and removes the consent.
C5_LockoutAfterFive ==
    [][\A cid \in 1..MaxConsents, pin \in Pins :
         (/\ consent_pin # ""
          /\ cid \in DOMAIN pending_consents
          /\ history[cid].wrong = 5
          /\ approve_consent(cid, pin))
         => /\ Lockout(ret')
            /\ auth_codes' = auth_codes
            /\ next_code' = next_code
            /\ cid \notin DOMAIN pending_consents']_vars

\* the sixth call was locked out
C5_Witness ==
    /\ ret.op = "approve_consent"
    /\ Lockout(ret)
    /\ history[ret.args[1]].wrong = 5
    /\ ret.args[1] \notin DOMAIN pending_consents
    /\ history[ret.args[1]].codes = {}

C7_CorrectPinApproves ==
    [][\A cid \in 1..MaxConsents, pin \in Pins :
         (/\ consent_pin # ""
          /\ cid \in DOMAIN pending_consents
          /\ pin = consent_pin
          /\ history[cid].wrong < 5
          /\ approve_consent(cid, pin))
         => LET client == pending_consents[cid].client
                params == pending_consents[cid].params
            IN  /\ ret'.raised = ""
                /\ cid \notin DOMAIN pending_consents'
                /\ cid \notin DOMAIN _pin_failures'
                /\ \E c \in DOMAIN auth_codes' \ DOMAIN auth_codes :
                     /\ DOMAIN auth_codes' = DOMAIN auth_codes \cup {c}
                     /\ \A old \in DOMAIN auth_codes : auth_codes'[old] = auth_codes[old]
                     /\ auth_codes'[c].code = c
                     /\ auth_codes'[c].client_id = client
                     /\ auth_codes'[c].scopes =
                            (IF params.scopes = None THEN <<>> ELSE params.scopes.value)
                     /\ auth_codes'[c].code_challenge = params.code_challenge
                     /\ auth_codes'[c].redirect_uri = params.redirect_uri
                     /\ ret'.value = Redirect(params.redirect_uri, c, "", params.state)]_vars

\* the correct PIN was accepted after a wrong one
C7_Witness ==
    /\ consent_pin # ""
    /\ ret.op = "approve_consent"
    /\ ret.raised = ""
    /\ history[ret.args[1]].wrong = 2
    /\ ret.value.code \in DOMAIN auth_codes

\* C8: with no PIN configured, approve_consent on a pending consent succeeds
\* for every pin, no call raises InvalidPINError and no failure counter exists.
C8_NoPinNoCheck ==
    /\ [](consent_pin = "" =>
            /\ _pin_failures = EmptyDict
            /\ ret.raised # "InvalidPINError")
    /\ [][\A cid \in 1..MaxConsents, pin \in Pins :
            (consent_pin = "" /\ cid \in DOMAIN pending_consents
               /\ approve_consent(cid, pin))
            => /\ ret'.raised = ""
               /\ cid \notin DOMAIN pending_consents'
               /\ ret'.value.code \in DOMAIN auth_codes' \ DOMAIN auth_codes]_vars

\* without a PIN, an approval went through
C8_Witness ==
    /\ consent_pin = ""
    /\ ret.op = "approve_consent"
    /\ ret.raised = ""
    /\ ret.value.code \in DOMAIN auth_codes

\* C9: once revoke_token has run on a token that was valid (signed by the
\* provider, not expired), load_access_token and load_refresh_token return
\* None for it from then on, and the revocation changes what they return for
\* no other issued token.
C9_RevokedTokenRejected ==
    /\ []((ret.op \in {"load_access_token", "load_refresh_token"}
             /\ ret.args[1].jti \in revoked_jtis) => ret.value = None)
    /\ [][revoked_jtis \subseteq revoked_jtis']_vars
    /\ [][\A token \in issued :
            (now < token.exp /\ revoke_token(token)) =>
               /\ token.jti \in revoked_jtis'
               /\ AccessToken(token)' = None
               /\ \A client \in ClientIds : RefreshToken(client, token)' = None
               /\ \A other \in issued \ {token} :
                    /\ AccessToken(other)' = AccessToken(other)
                    /\ \A client \in ClientIds :
                         RefreshToken(client, other)' = RefreshToken(client, other)]_vars

\* an unexpired revoked token was refused while another token still verifies
C9_Witness ==
    /\ ret.op = "load_access_token"
    /\ ret.args[1] \in issued
    /\ ret.args[1].type = "access"
    /\ now < ret.args[1].exp
    /\ ret.args[1].jti \in revoked_jtis
    /\ ret.value = None
    /\ \E other \in issued : RefreshToken(other.sub, other) # None

\* C10: when exchange_refresh_token returns, the jti of the refresh token it
\* was given is in revoked_jtis and the refresh token it returns has another
\* jti, which is not revoked; load_refresh_token returns None for every token
\* an exchange_refresh_token has returned on.
C10_RotationRevokesPresented ==
    /\ ret.op = "exchange_refresh_token" =>
          /\ ret.args[1].jti \in revoked_jtis
          /\ ret.value.refresh_token.jti # ret.args[1].jti
          /\ ret.value.refresh_token.jti \notin revoked_jtis
    /\ (ret.op = "load_refresh_token" /\ ret.args[1] \in rotated) => ret.value = None

\* the checks of `key` that returned True later than `since`
AllowedSince(key, since) ==
    LET log == DictGet(allowed, key, <<>>)
    IN  Cardinality({i \in 1..Len(log) : log[i] > since})

\* C11: check(key) returns True exactly when fewer than max_requests earlier
\* allowed checks of the key are later than now - window; an allowed check
\* appends now to the key's list, a denied one adds nothing; so no window
\* ending at an allowed check holds more than max_requests allowed checks.
C11_SlidingWindow ==
    /\ [](\A key \in DOMAIN allowed : \A i \in 1..Len(allowed[key]) :
            Cardinality({j \in 1..i :
                           allowed[key][j] > allowed[key][i] - window_seconds})
               <= max_requests)
    /\ [][\A key \in LimiterKeys :
            Call("check", <<key>>, check(key)) =>
               LET recent == AllowedSince(key, now - window_seconds)
                   before == DictGet(_timestamps, key, <<>>)
                   after  == _timestamps'[key]
               IN  /\ ret'.value = (recent < max_requests)
                   /\ ret'.value =>
                         /\ Len(after) = recent + 1
                         /\ after[Len(after)] = now
                   /\ ~ret'.value =>
                         /\ Len(after) = recent
                         /\ \A i \in 1..Len(after) :
                              \E j \in 1..Len(before) : after[i] = before[j]]_vars

\* a key that was full is allowed again after its events aged out
C11_Witness ==
    /\ ret.op = "check"
    /\ ret.value = TRUE
    /\ Len(allowed[ret.args[1]]) > max_requests
    /\ max_requests = 3

\* C12: check(key) leaves the list of every other key as it was, and it
\* returns False only when the key's own allowed checks fill the window,
\* however many checks other keys have made.
C12_KeysIndependent ==
    [][\A key \in LimiterKeys :
         Call("check", <<key>>, check(key)) =>
            /\ \A other \in LimiterKeys \ {key} :
                 /\ (other \in DOMAIN _timestamps') = (other \in DOMAIN _timestamps)
                 /\ DictGet(_timestamps', other, <<>>) = DictGet(_timestamps, other, <<>>)
                 /\ DictGet(allowed', other, <<>>) = DictGet(allowed, other, <<>>)
            /\ ~ret'.value => AllowedSince(key, now - window_seconds) >= max_requests]_vars

\* key-b is allowed while key-a is exhausted
C12_Witness ==
    /\ ret.op = "check"
    /\ ret.args = <<"key-b">>
    /\ ret.value = TRUE
    /\ AllowedSince("key-a", now - window_seconds) = max_requests

\* C13: with the statements of concurrent check calls interleaved, no window
\* ending at an allowed check holds more than max_requests allowed checks of
\* the key, and once every call has returned, each allowed check that is
\* still inside the window is in the key's list.
C13_InterleavedChecksBounded ==
    \A key \in DOMAIN allowed :
        /\ \A i \in 1..Len(allowed[key]) :
              Cardinality({j \in 1..Len(allowed[key]) :
                             /\ allowed[key][j] > allowed[key][i] - window_seconds
                             /\ allowed[key][j] <= allowed[key][i]})
                 <= max_requests
        /\ (\A c \in Callers : chk[c].pc = "outside") =>
              Len(Prune(DictGet(_timestamps, key, <<>>), now - window_seconds))
                 >= AllowedSince(key, now - window_seconds)

RateLimited(r) ==
    r.raised = "RegistrationError" /\ r.msg = "Rate limit exceeded. Try again later."

\* C14: no 600-second window ending at a successful register_client holds
\* more than 5 successful calls, whoever the clients are; a call made while
\* 5 successful calls are inside the window raises the rate-limit error and
\* changes neither the clients map nor the limiter's record.
C14_RegistrationThrottled ==
    /\ [](\A i \in 1..Len(DictGet(allowed, "global", <<>>)) :
            Cardinality({j \in 1..i :
                           allowed["global"][j] > allowed["global"][i] - 600}) <= 5)
    /\ [][\A client_info \in ClientInfos :
            (/\ AllowedSince("global", now - 600) >= 5
             /\ Call("register_client", <<client_info>>, register_client(client_info)))
            => /\ RateLimited(ret')
               /\ clients' = clients
               /\ _timestamps' = _timestamps
               /\ allowed' = allowed]_vars

\* a sixth registration inside the window was refused
C14_Witness ==
    /\ ret.op = "register_client"
    /\ RateLimited(ret)
    /\ AllowedSince("global", now - 600) = 5
    /\ ret.args[1].client_id \notin DOMAIN clients

\* C15: with a registration token configured, every registered client declared
\* a software_id equal to the token.
C15_RegistrationTokenGates ==
    REGISTRATION_TOKEN # "" =>
        \A client_id \in DOMAIN clients :
            clients[client_id].software_id = Some(REGISTRATION_TOKEN)

\* C16: a register_client call that the limiter lets through succeeds for
\* every software_id, PIN and registration token, and stores the record under
\* its client_id, replacing the one that was there and touching no other, so
\* registering the same record again changes nothing; a record changes only
\* by a successful registration, and get_client returns the stored record.
C16_RegisterOverwrites ==
    /\ []((ret.op = "register_client" /\ ret.raised = "") =>
            /\ ret.args[1].client_id \in DOMAIN clients
            /\ clients[ret.args[1].client_id] = ret.args[1])
    /\ [][\A client_info \in ClientInfos :
            (/\ AllowedSince("global", now - 600) < 5
             /\ Call("register_client", <<client_info>>, register_client(client_info)))
            => /\ ret'.raised = ""
               /\ DOMAIN clients' = DOMAIN clients \cup {client_info.client_id}
               /\ clients'[client_info.client_id] = client_info
               /\ \A other \in DOMAIN clients \ {client_info.client_id} :
                    clients'[other] = clients[other]
               /\ DictGet(clients, client_info.client_id, None) = client_info
                     => clients' = clients]_vars
    /\ [][\A client_id \in ClientIds :
            /\ DictGet(clients', client_id, None) # DictGet(clients, client_id, None)
                 => /\ ret'.op = "register_client"
                    /\ ret'.raised = ""
                    /\ ret'.args[1] = clients'[client_id]
            /\ Call("get_client", <<client_id>>, get_client(client_id))
                 => ret'.value = DictGet(clients, client_id, None)]_vars

\* get_client returns the second record registered for client-a, which
\* declares no software_id, on a provider with a PIN
C16_Witness ==
    /\ consent_pin # ""
    /\ ret.op = "get_client"
    /\ ret.args = <<"client-a">>
    /\ ret.value # None
    /\ ret.value.software_id = None
    /\ Len(allowed["global"]) >= 2

\* C17: a token verified the moment it was signed, for any subject, type,
\* scope list and positive lifetime, decodes to the subject, type and scopes
\* it was signed with, and the loader of its type returns them.
C17_RoundTrip ==
    (ret.op = "_create_jwt" /\ now = ret.value.iat /\ ret.args[4] > 0) =>
        LET sub == ret.args[1]
            token_type == ret.args[2]
            scopes == ret.args[3]
            payload == _decode_jwt(ret.value, FALSE)
            loaded == IF token_type = "access" THEN AccessToken(ret.value)
                      ELSE RefreshToken(sub, ret.value)
        IN  /\ payload # None
            /\ payload.sub = sub
            /\ payload.type = token_type
            /\ payload.scopes = scopes
            /\ loaded # None
            /\ loaded.client_id = sub
            /\ loaded.scopes = scopes

C17_Witness ==
    /\ ret.op = "_create_jwt"
    /\ ret.args[2] = "refresh"
    /\ ret.args[4] > 0
    /\ now = ret.value.iat
    /\ now > 0
    /\ revoked_jtis # {}
    /\ RefreshToken(ret.args[1], ret.value) # None

\* the presented string is a signed token, not the API key or a malformed string
Signed(token) == "raw" \notin DOMAIN token

\* the signed token is expired, or its secret, issuer or audience is not the server's
Defective(token) ==
    \/ token.exp <= now
    \/ token.key # oauth_secret
    \/ token.iss # ServiceId
    \/ token.aud # ServiceId

\* C18: a token that is expired or carries a wrong secret, a wrong issuer or
\* a wrong audience is rejected (None) by load_access_token and by
\* load_refresh_token, whatever its other three checks say and whatever the
\* revoked set holds.
C18_AllChecksRequired ==
    /\ [](\A token \in Presented :
            (Signed(token) /\ Defective(token)) =>
               /\ AccessToken(token) = None
               /\ \A client \in ClientIds : RefreshToken(client, token) = None)
    /\ [][(/\ ret'.op = "load_access_token"
           /\ load_access_token(ret'.args[1])
           /\ Signed(ret'.args[1])
           /\ Defective(ret'.args[1])) => ret'.value = None]_vars
    /\ [][(/\ ret'.op = "load_refresh_token"
           /\ \E r \in Refreshes, client \in ClientIds :
                 load_refresh_token(r, client, ret'.args[1])
           /\ Signed(ret'.args[1])
           /\ Defective(ret'.args[1])) => (ret'.value = None /\ rreq' = rreq)]_vars

\* a token whose only defect is its audience was refused while the revoked set
\* was empty and a signed token of the provider verified
C18_Witness ==
    /\ ret.op \in {"load_access_token", "load_refresh_token"}
    /\ Signed(ret.args[1])
    /\ ret.args[1].aud # ServiceId
    /\ ret.args[1].iss = ServiceId
    /\ ret.args[1].key = oauth_secret
    /\ now < ret.args[1].exp
    /\ ret.value = None
    /\ revoked_jtis = {}
    /\ \E other \in issued : AccessToken(other) # None

\* C19: after revoke_token has run on a token the provider signed and that
\* has expired, the token's jti is in revoked_jtis.
C19_ExpiredTokenRevoked ==
    (/\ ret.op = "revoke_token"
     /\ ret.args[1] \in issued
     /\ ret.args[1].exp <= now) => ret.args[1].jti \in revoked_jtis

\* the token cannot be decoded: it is no JWT (the API key, a malformed
\* string) or its signature, issuer or audience is wrong
Undecodable(token) ==
    \/ ~Signed(token)
    \/ token.key # oauth_secret
    \/ token.iss # ServiceId
    \/ token.aud # ServiceId

\* C20: revoke_token on a token that does not decode raises nothing and
\* changes neither the revoked set nor any other store; revoke_token on a
\* token whose jti is already revoked leaves the revoked set as it was.
C20_RevokeUndecodableNoOp ==
    /\ [][(/\ ret'.op = "revoke_token"
           /\ revoke_token(ret'.args[1])
           /\ Undecodable(ret'.args[1])) =>
              (ret'.raised = "" /\ UNCHANGED stores)]_vars
    /\ [][(/\ ret'.op = "revoke_token"
           /\ revoke_token(ret'.args[1])
           /\ Signed(ret'.args[1])
           /\ ret'.args[1].jti \in revoked_jtis) =>
              (ret'.raised = "" /\ UNCHANGED stores)]_vars

\* revoke_token ran on a hand-made token with a wrong secret whose jti is not
\* revoked, while another jti is
C20_Witness ==
    /\ ret.op = "revoke_token"
    /\ Signed(ret.args[1])
    /\ ret.args[1].key # oauth_secret
    /\ ret.args[1].iss = ServiceId
    /\ ret.args[1].aud = ServiceId
    /\ now < ret.args[1].exp
    /\ ret.args[1].jti \notin revoked_jtis
    /\ revoked_jtis # {}

\* the grant of the static API key
ApiKeyGrant(token) ==
    [token |-> token, client_id |-> "api-key", scopes |-> <<"all">>,
     expires_at |-> None]

\* a signed token that passes every check of an access token
ValidAccess(token) ==
    /\ Signed(token)
    /\ ~Defective(token)
    /\ token.type = "access"
    /\ token.jti \notin revoked_jtis

C22_TypesNotConfused ==
    /\ \A token \in Presented :
          Signed(token) =>
             /\ token.type # "access" => AccessToken(token) = None
             /\ token.type # "refresh" =>
                   \A client \in ClientIds : RefreshToken(client, token) = None
    /\ (ret.op = "load_access_token" /\ Signed(ret.args[1]) /\ ret.value # None) =>
          ret.args[1].type = "access"
    /\ (ret.op = "load_refresh_token" /\ ret.value # None) =>
          (Signed(ret.args[1]) /\ ret.args[1].type = "refresh")

\* load_access_token refused a refresh token that load_refresh_token accepts
C22_Witness ==
    /\ ret.op = "load_access_token"
    /\ Signed(ret.args[1])
    /\ ret.args[1].type = "refresh"
    /\ RefreshToken(ret.args[1].sub, ret.args[1]) # None
    /\ ret.value = None

\* a signed token that passes every check of a refresh token but the client's
ValidRefresh(token) ==
    /\ Signed(token)
    /\ ~Defective(token)
    /\ token.type = "refresh"
    /\ token.jti \notin revoked_jtis

\* C23: load_refresh_token(client, token) returns the token only when the
\* token's subject is the requesting client's id: a valid, unrevoked refresh
\* token of client A is absent (None) for every other client B, and is
\* returned to A.
C23_RefreshBoundToClient ==
    [][\A r \in Refreshes, client \in ClientIds, token \in Presented :
         Call("load_refresh_token", <<token>>, load_refresh_token(r, client, token)) =>
            /\ ret'.value # None =>
                  (Signed(token) /\ token.sub = client /\ ret'.value.client_id = client)
            /\ (ValidRefresh(token) /\ token.sub # client) =>
                  (ret'.value = None /\ rreq' = rreq)
            /\ (ValidRefresh(token) /\ token.sub = client) =>
                  (ret'.value # None /\ ret'.value.token = token)]_vars

\* a refresh token that is still valid for its own client was refused
C23_Witness ==
    /\ ret.op = "load_refresh_token"
    /\ ret.value = None
    /\ ValidRefresh(ret.args[1])
    /\ RefreshToken(ret.args[1].sub, ret.args[1]) # None

\* the scopes the authorization request of `client` asks for
Requested(client) ==
    OrEmpty((CHOOSE r \in AuthRequests : r.client = client).params.scopes)

\* C24: for a registered client C whose authorize was approved with no PIN
\* configured, exchange_authorization_code(C, code) on the code of the redirect
\* returns an access and a refresh token with expires_in = 3600 and the
\* scopes requested in authorize, and load_access_token on that access token
\* returns a grant with client_id C and the requested scopes.
C24_EndToEnd ==
    /\ [][\A a \in Attempts :
            (ret'.op = "exchange_authorization_code" /\ exchange_authorization_code(a)) =>
               LET C == att[a].client
                   tok == ret'.value
               IN  /\ C \in DOMAIN clients
                   /\ \E consent_id \in 1..MaxConsents :
                         att[a].loaded.code \in history[consent_id].codes
                   /\ tok.expires_in = 3600
                   /\ tok.access_token # tok.refresh_token
                   /\ tok.access_token.sub = C
                   /\ tok.refresh_token.sub = C
                   /\ tok.access_token.scopes = Requested(C)
                   /\ tok.refresh_token.scopes = Requested(C)]_vars
    /\ [](ret.op = "exchange_authorization_code" =>
            LET tok == ret.value
                C == tok.access_token.sub
                grant == AccessToken(tok.access_token)
            IN  /\ grant # None
                /\ grant.client_id = C
                /\ grant.scopes = Requested(C)
                /\ RefreshToken(C, tok.refresh_token) # None)
    /\ []((ret.op = "load_access_token" /\ ret.args[1].type = "access") =>
            /\ ret.value # None
            /\ ret.value.client_id = ret.args[1].sub
            /\ ret.value.scopes = Requested(ret.args[1].sub))

\* the access token of a completed flow of client-a was presented and accepted
C24_Witness ==
    /\ consent_pin = ""
    /\ "client-a" \in DOMAIN clients
    /\ \E code \in 1..MaxConsents : exchanged[code] > 0
    /\ ret.op = "load_access_token"
    /\ ret.value # None
    /\ ret.value.client_id = "client-a"
    /\ ret.value.scopes = <<"all">>

\* C25: after cleanup_expired_consents has run, no consent that authorize
\* created more than 600 seconds earlier is pending, and the pending consents
\* that are younger are as they were.
C25_SweepRemovesOld ==
    [][(ret'.op = "cleanup_expired_consents" /\ cleanup_expired_consents) =>
         /\ \A cid \in DOMAIN pending_consents' : now - history[cid].created <= 600
         /\ \A cid \in DOMAIN pending_consents :
               now - history[cid].created <= 600 =>
                  /\ cid \in DOMAIN pending_consents'
                  /\ pending_consents'[cid] = pending_consents[cid]]_vars

\* C26: deny_consent on a pending consent removes that record and no other,
\* returns a redirect to the request's redirect_uri carrying the error
\* access_denied and the request's state, and mints no code (the code store
\* is unchanged); on an id that is not pending it raises and changes nothing.
C26_DenyRemovesAndRedirects ==
    [][\A consent_id \in ConsentIds :
         Call("deny_consent", <<consent_id>>, deny_consent(consent_id)) =>
            IF consent_id \in DOMAIN pending_consents
            THEN LET params == pending_consents[consent_id].params IN
                 /\ pending_consents' = DictPop(pending_consents, consent_id)
                 /\ consent_id \notin DOMAIN pending_consents'
                 /\ ret'.raised = ""
                 /\ ret'.value.uri = params.redirect_uri
                 /\ ret'.value.error = "access_denied"
                 /\ ret'.value.state = params.state
                 /\ ret'.value.code = 0
                 /\ auth_codes' = auth_codes
                 /\ next_code' = next_code
            ELSE /\ NotFound(ret')
                 /\ UNCHANGED stores]_vars

\* a consent was denied while the code of another consent is in the store
C26_Witness ==
    /\ ret.op = "deny_consent"
    /\ ret.raised = ""
    /\ ret.value.error = "access_denied"
    /\ ret.value.state = "st-2"
    /\ ret.args[1] \notin DOMAIN pending_consents
    /\ auth_codes # EmptyDict

\* C27: every consent_id that has a PIN failure counter is pending: the
\* counter is gone once the consent is removed by approval, denial, lockout
\* or the sweep.
C27_CounterOnlyWhilePending == DOMAIN _pin_failures \subseteq DOMAIN pending_consents

\* C28: no consent is pending while its PIN failure counter equals the
\* maximum of 5: reaching the maximum removes the consent.
C28_MaxFailuresExpires ==
    \A consent_id \in DOMAIN pending_consents :
        DictGet(_pin_failures, consent_id, 0) # 5

\* the three failures of approve_consent(consent_id, ...)
NotFoundFailure(consent_id) ==
    Raised("approve_consent", <<consent_id>>, "ValueError", "Invalid or expired consent")
InvalidPinFailure(consent_id) ==
    Raised("approve_consent", <<consent_id>>, "InvalidPINError", "Invalid PIN")
LockoutFailure(consent_id) ==
    Raised("approve_consent", <<consent_id>>, "InvalidPINError",
           "Too many failed attempts. Authorization cancelled.")

C31_RevokedSetAppendOnly ==
    /\ [][revoked_jtis \subseteq revoked_jtis']_vars
    /\ [](\A token \in Presentable :
            token.jti \in revoked_jtis =>
               /\ AccessToken(token) = None
               /\ \A client \in ClientIds : RefreshToken(client, token) = None)

\* two ids are revoked, one by rotation and one by revoke_token, and a token
\* that has not expired was refused for its id
C31_Witness ==
    /\ Cardinality(revoked_jtis) >= 2
    /\ rotated # {}
    /\ ret.op \in {"load_access_token", "load_refresh_token"}
    /\ ret.args[1].jti \in revoked_jtis
    /\ now < ret.args[1].exp
    /\ ret.value = None

\* the scope lists of the model joined by single spaces
SpaceJoined(scopes) ==
    CASE scopes = <<"all">> -> "all"
      [] scopes = <<"trade">> -> "trade"
      [] scopes = <<"read", "trade">> -> "read trade"

C33_NoInternalError ==
    /\ ret.op \in {"load_access_token", "load_refresh_token", "revoke_token"} =>
          ret.raised = ""
    /\ ret.op = "approve_consent" => ret.raised \in {"", "ValueError", "InvalidPINError"}

\* C34: when two refresh requests present the same refresh token and both run
\* load_refresh_token before either runs exchange_refresh_token, at most one
\* of them obtains a new token pair: an exchange that returns a pair presents
\* a refresh token that no earlier exchange was given.
C34_OnePairPerRefreshToken ==
    [][(ret'.op = "exchange_refresh_token" /\ ret'.raised = ""
          /\ \E r \in Racing : exchange_refresh_token(r, <<>>))
       => ret'.args[1] \notin rotated]_vars

\* C35: every authorization code is minted with expiry = approval time + 600,
\* and a code presented after its expiry is not exchanged:
\* load_authorization_code followed by exchange_authorization_code yields a
\* token pair only for a code that has not expired.
C35_ExpiredCodeNotExchanged ==
    /\ [][\A code \in DOMAIN auth_codes' \ DOMAIN auth_codes :
            auth_codes'[code].expires_at = now + _AUTH_CODE_TTL]_vars
    /\ [][\A a \in Attempts :
            (ret'.op = "exchange_authorization_code" /\ ret'.raised = ""
               /\ exchange_authorization_code(a))
            => now <= att[a].loaded.expires_at]_vars

\* C36: a code is bound to the client it was authorized for: the tokens
\* exchange_authorization_code mints carry as subject the client_id stored in
\* the code, so that a different client presenting the code obtains tokens
\* neither under its own identity nor under that of the bound client.
C36_CodeBoundToClient ==
    [][\A a \in Attempts :
         (ret'.op = "exchange_authorization_code" /\ ret'.raised = ""
            /\ exchange_authorization_code(a))
         => /\ att[a].client = att[a].loaded.client_id
            /\ ret'.value.access_token.sub = att[a].loaded.client_id
            /\ ret'.value.refresh_token.sub = att[a].loaded.client_id]_vars

\* C37: exchange_refresh_token adds exactly one id to the revoked set, that of
\* the refresh token it was given; every other token issued earlier, the
\* access token issued together with the rotated refresh token included, is
\* verified as before; the pending-consent, code and client stores are
\* unchanged.
C37_RotationFrame ==
    [][\A r \in Refreshes, scopes \in RefreshScopes :
         (ret'.op = "exchange_refresh_token" /\ exchange_refresh_token(r, scopes))
         => LET presented == rreq[r].loaded.token IN
            /\ revoked_jtis' = revoked_jtis \cup {presented.jti}
            /\ \A token \in issued \ {presented} :
                  /\ AccessToken(token)' = AccessToken(token)
                  /\ \A client \in ClientIds :
                        RefreshToken(client, token)' = RefreshToken(client, token)
            /\ UNCHANGED <<pending_consents, _pin_failures, auth_codes, clients>>]_vars

\* C38: the static API key cannot be revoked: after any sequence of
\* revoke_token and exchange_refresh_token calls, revoke_token on the token
\* of the API-key grant included, load_access_token with the configured key
\* returns the api-key grant; revoke_token on the key adds nothing to the
\* revoked set.
C38_ApiKeyNotRevocable ==
    /\ [](AccessToken(TheKey) = ApiKeyGrant(TheKey))
    /\ [][Call("load_access_token", <<TheKey>>, load_access_token(TheKey)) =>
            ret'.value = ApiKeyGrant(TheKey)]_vars
    /\ [][Call("revoke_token", <<TheKey>>, revoke_token(TheKey)) =>
            revoked_jtis' = revoked_jtis]_vars

\* the key was accepted after a rotation and two revocations
C38_Witness ==
    /\ ret.op = "load_access_token"
    /\ ret.args[1] = TheKey
    /\ ret.value = ApiKeyGrant(TheKey)
    /\ rotated # {}
    /\ Cardinality(revoked_jtis) >= 2

\* C39: codes arise only from successful approvals: a code enters the store
\* only in a successful approve_consent on a consent that authorize created,
\* which leaves the pending store in the same step, and the code carries that
\* consent's client_id and scopes; authorize, deny_consent, a wrong-PIN
\* attempt, a lockout and the sweep add no code; every code was minted for
\* exactly one consent, no consent got two, and no more codes were minted than
\* consents were approved.
C39_CodesOnlyFromApprovals ==
    /\ [](/\ \A code \in DOMAIN auth_codes :
              Cardinality({cid \in 1..(next_consent - 1) :
                             /\ code \in history[cid].codes
                             /\ cid \notin DOMAIN pending_consents}) = 1
          /\ \A cid \in 1..MaxConsents : Cardinality(history[cid].codes) <= 1
          /\ next_code - 1 <=
                Cardinality({cid \in 1..(next_consent - 1) : history[cid].codes # {}}))
    /\ [][\A code \in DOMAIN auth_codes' \ DOMAIN auth_codes :
            \E cid \in DOMAIN pending_consents :
               /\ ret' = Returned("approve_consent", <<cid>>, ret'.value)
               /\ cid \notin DOMAIN pending_consents'
               /\ PinRequired => history[cid].wrong < _MAX_PIN_ATTEMPTS
               /\ next_code' = next_code + 1
               /\ auth_codes'[code].client_id = pending_consents[cid].client
               /\ auth_codes'[code].scopes = OrEmpty(pending_consents[cid].params.scopes)]_vars
    /\ [][(\/ ret'.op \in {"authorize", "deny_consent", "cleanup_expired_consents"}
           \/ ret'.raised # "")
          => (auth_codes' = auth_codes /\ next_code' = next_code)]_vars

\* two consents were approved, one of them after a wrong PIN, and each has
\* its code in the store with the scopes it asked for
C39_Witness ==
    /\ ret.op = "approve_consent"
    /\ ret.raised = ""
    /\ Cardinality(DOMAIN auth_codes) = 2
    /\ history[ret.args[1]].wrong > 0
    /\ \E c1, c2 \in DOMAIN auth_codes :
          /\ auth_codes[c1].client_id = "client-a" /\ auth_codes[c1].scopes = <<"all">>
          /\ auth_codes[c2].client_id = "client-b" /\ auth_codes[c2].scopes = <<>>

\* C40: every PIN failure counter that exists has a value from 1 to 5, and no
\* further attempt takes it past the maximum; an approve_consent that fails
\* on the PIN (wrong PIN or lockout) leaves the counter and the pending record
\* of every other consent as they were.
C40_CounterBounds ==
    /\ [](\A cid \in DOMAIN _pin_failures :
            /\ 1 <= _pin_failures[cid]
            /\ _pin_failures[cid] <= _MAX_PIN_ATTEMPTS)
    /\ [][(ret'.op = "approve_consent" /\ (InvalidPin(ret') \/ Lockout(ret')))
            => \A other \in (1..MaxConsents) \ {ret'.args[1]} :
                  /\ other \in DOMAIN _pin_failures' <=> other \in DOMAIN _pin_failures
                  /\ other \in DOMAIN _pin_failures =>
                        _pin_failures'[other] = _pin_failures[other]
                  /\ other \in DOMAIN pending_consents' <=>
                        other \in DOMAIN pending_consents
                  /\ other \in DOMAIN pending_consents =>
                        pending_consents'[other] = pending_consents[other]]_vars

\* a fifth wrong PIN on one consent while another consent is pending with
\* two failures of its own
C40_Witness ==
    /\ ret.op = "approve_consent"
    /\ InvalidPin(ret)
    /\ _pin_failures[ret.args[1]] = _MAX_PIN_ATTEMPTS
    /\ \E other \in DOMAIN _pin_failures \ {ret.args[1]} :
          /\ _pin_failures[other] = 2
          /\ other \in DOMAIN pending_consents

====
